---- MODULE Spec2Model ----
(***************************************************************************)
(* A model of src/app/main.py: the RepoSearchApp indexing pipeline         *)
(* (clone_repo, index_repository, index_repositories) and the search path  *)
(* (search_files, reached from the Flask handler search()).                *)
(*                                                                         *)
(* Text values (locations, names, paths, contents, queries) are sequences  *)
(* of pieces: a piece is a word or one of the separators "/" and ".".      *)
(***************************************************************************)
EXTENDS Integers, Sequences, FiniteSets, TLC

\* ------------------------------------------------------------------ bounds

\* The longest list of locations one call of index_repositories is given.
MaxUrls == 2

\* The number of calls of index_repositories in one behaviour.
MaxRuns == 2

\* The number of request threads of the web server.
NThreads == 2

\* --------------------------------------------------------- program constants

\* main.py:76, files larger than this many bytes are skipped.
SizeLimit == 1000000

\* main.py:127, the default of search_files's limit.
DefaultLimit == 50

\* main.py:7, repos_dir.
ReposDir == <<"repos">>

\* ------------------------------------------------------------- text helpers

Last(s) == s[Len(s)]

\* The indices of the piece p in the text s.
Positions(s, p) == {k \in 1..Len(s) : s[k] = p}

SetMax(S) == CHOOSE x \in S : \A y \in S : y <= x

\* os.path.basename: what follows the last "/".
Basename(p) ==
    IF Positions(p, "/") = {} THEN p
    ELSE SubSeq(p, SetMax(Positions(p, "/")) + 1, Len(p))

\* os.path.splitext(name)[0] of a name without "/": the text before the last
\* ".", unless only dots precede that dot.
SplitextRoot(name) ==
    IF Positions(name, ".") = {} THEN name
    ELSE LET d == SetMax(Positions(name, "."))
         IN  IF \E k \in 1..(d - 1) : name[k] # "." THEN SubSeq(name, 1, d - 1)
             ELSE name

\* os.path.join(a, b) for a relative b.
Join(a, b) ==
    IF a = <<>> \/ Last(a) = "/" THEN a \o b ELSE a \o <<"/">> \o b

\* os.path.relpath(path, start) for a path below start.
Relpath(path, start) ==
    LET s == IF start # <<>> /\ Last(start) = "/"
             THEN SubSeq(start, 1, Len(start) - 1) ELSE start
    IN  SubSeq(path, Len(s) + 2, Len(path))

DigitChar == <<"0", "1", "2", "3", "4", "5", "6", "7", "8", "9">>

RECURSIVE Digits(_)
Digits(n) ==
    IF n < 10 THEN <<DigitChar[n + 1]>>
    ELSE Digits(n \div 10) \o <<DigitChar[(n % 10) + 1]>>

\* datetime.fromtimestamp(mtime).isoformat(): the textual form of a timestamp.
IsoFormat(mtime) == <<"T">> \o Digits(mtime)

\* ------------------------------------------------------------ the environment

\* The locations the pipeline is given: two that derive the same repo_name,
\* and one that ends with "/" (as "https://host/r.git/").
UrlGit   == <<"https", "/", "host", "/", "r", ".", "git">>
UrlPlain == <<"https", "/", "mirror", "/", "r">>
UrlSlash == <<"https", "/", "host", "/", "s", ".", "git", "/">>

URLs == {UrlGit, UrlPlain, UrlSlash}

\* What the two subprocess.run calls of clone_repo can do: the clone exits 0,
\* a command exits non-zero (CalledProcessError), or subprocess.run raises
\* something else (the tool cannot be started: FileNotFoundError, OSError).
Outcomes == {"ok", "fail", "raise"}

\* A file of a repository: its directory and name, its size in bytes, whether
\* its bytes decode as UTF-8, the I/O error it meets ("stat": os.path.getsize
\* raises, "read": open/read raises, "mtime": os.stat raises), and its text.
File(dir, name, size, utf8, err, text) ==
    [dir |-> dir, name |-> name, size |-> size, utf8 |-> utf8, err |-> err, text |-> text]

TreeGit ==
    << File(<<>>, <<"README", ".", "md">>, 20, TRUE, "none", <<"hello", "world">>),
       File(<<>>, <<"binary", ".", "bin">>, 2000000, FALSE, "none", <<>>),
       File(<<>>, <<"exact", ".", "txt">>, 1000000, TRUE, "none", <<"hello">>),
       File(<<>>, <<"over", ".", "txt">>, 1000001, TRUE, "none", <<"hello">>),
       File(<<>>, <<"link">>, 0, TRUE, "stat", <<>>),
       File(<<"docs">>, <<"guide", ".", "md">>, 999999, TRUE, "none", <<"hello", "guide">>) >>

TreePlain ==
    << File(<<>>, <<"locked", ".", "txt">>, 10, TRUE, "read", <<"hello">>),
       File(<<>>, <<"latin1", ".", "txt">>, 30, FALSE, "none", <<>>),
       File(<<>>, <<"main", ".", "py">>, 40, TRUE, "none", <<"hello">>),
       File(<<>>, <<"gone", ".", "txt">>, 50, TRUE, "mtime", <<"hello">>),
       File(<<"src">>, <<"notes", ".", "txt">>, 60, TRUE, "none", <<"hello", "notes">>) >>

TreeSlash ==
    << File(<<>>, <<"README", ".", "md">>, 20, TRUE, "none", <<"hello">>) >>

\* The files of the repository at a location, in the order os.walk lists them.
RemoteTree(url) ==
    IF url = UrlGit THEN TreeGit
    ELSE IF url = UrlPlain THEN TreePlain
    ELSE TreeSlash

\* What git clone writes besides the files of the repository: the .git
\* directory, which os.walk lists like any other. Its index is binary; its
\* reflog is text and records the time of the clone.
GitDir(now) ==
    << File(<<".", "git">>, <<"index">>, 137, FALSE, "none", <<>>),
       File(<<".", "git", "/", "logs">>, <<"HEAD">>, 180, TRUE, "none",
            <<"clone">> \o Digits(now)) >>

\* The files of a working copy cloned from a location at a time.
Cloned(url, now) == RemoteTree(url) \o GitDir(now)

\* ------------------------------------------------------------------- state

VARIABLES
    outcome,     \* the environment: what fetching each location does
    clock,       \* the system time
    fs,          \* the working copies under repos_dir, by repo_name
    index,       \* file_contents as self.conn sees it, in rowid order
    committed,   \* file_contents as committed to the database file
    origin,      \* for each row of index, the location and file it came from
    pc,          \* where index_repositories is: "idle", "clearing", "fetching", "walking"
    urls,        \* repo_urls of the call in progress
    i,           \* the position in repo_urls
    repo,        \* repo_name of the repository being walked
    j,           \* the position in the walk
    trace,       \* the steps of the current (or last) call, in order
    nruns,       \* the number of calls of index_repositories so far
    runs,        \* the last calls of index_repositories that have ended, older first
    cursor,      \* self.cursor: the statement last executed and its unread rows
    th           \* the request threads

pipeVars == <<outcome, clock, fs, index, committed, origin, pc, urls, i, repo, j, trace, nruns, runs>>
vars == <<outcome, clock, fs, index, committed, origin, pc, urls, i, repo, j, trace, nruns, runs,
          cursor, th>>

Threads == 1..NThreads

\* ------------------------------------------------------------- clone_repo

\* repo_name = os.path.splitext(os.path.basename(repo_url))[0]
RepoNameOf(url) == SplitextRoot(Basename(url))

RepoNames == {RepoNameOf(u) : u \in URLs}

\* repo_path = os.path.join(self.repos_dir, repo_name)
RepoPath(name) == Join(ReposDir, name)

Absent == [exists |-> FALSE, files |-> <<>>]

\* rm -rf repo_path: the working copy goes, and with repos_dir itself (the
\* empty repo_name) every working copy below it.
RemoveTree(f, name) ==
    IF name = <<>> THEN [n \in DOMAIN f |-> Absent]
    ELSE [f EXCEPT ![name] = Absent]

\* A mutant: the clone is made only where no working copy was; where one was,
\* it is removed and nothing is cloned.
CheckoutIfAbsent(old, tree, now) ==
    IF old.exists THEN [exists |-> TRUE, files |-> <<>>]
    ELSE [exists |-> TRUE,
          files |-> [k \in 1..Len(tree) |-> [file |-> tree[k], mtime |-> now]]]

\* git clone repo_url repo_path: a fresh working copy, files dated now.
Checkout(old, tree, now) ==
    [exists |-> TRUE,
     files |-> [k \in 1..Len(tree) |-> [file |-> tree[k], mtime |-> now]]]

\* The file system after clone_repo(url) with the given outcome.
FsAfterClone(f, url, out, now) ==
    LET name == RepoNameOf(url)
        removed == IF f[name].exists THEN RemoveTree(f, name) ELSE f
    IN  IF out = "ok"
        THEN [removed EXCEPT ![name] = Checkout(f[name], Cloned(url, now), now)]
        ELSE removed

\* What clone_repo returns: repo_name, or None.
CloneResult(url, out) ==
    IF out = "ok" THEN [none |-> FALSE, name |-> RepoNameOf(url)]
    ELSE [none |-> TRUE, name |-> <<>>]

\* `if repo_name:` None and the empty string are both false.
Truthy(r) == ~r.none /\ r.name # <<>>

\* --------------------------------------------------------- index_repository

\* os.path.getsize(filepath) >= 1_000_000: a mutant.
TooLargeInclusive(size) == size >= SizeLimit

\* os.path.getsize(filepath) > 1_000_000
TooLarge(size) == size > SizeLimit

\* open(..., encoding='utf-8').read() raising UnicodeDecodeError: a mutant that
\* reads every file.
DecodeFailsNever(f) == FALSE

\* open(..., encoding='utf-8').read() raises UnicodeDecodeError.
DecodeFails(f) == ~f.utf8

\* The loop body with its `try` left out: an I/O error leaves the walk: a mutant.
FileStepUncaught(f) ==
    IF f.err = "stat" THEN "raise"
    ELSE IF TooLarge(f.size) THEN "skip"
    ELSE IF f.err = "read" THEN "raise"
    ELSE IF DecodeFails(f) THEN "skip"
    ELSE IF f.err = "mtime" THEN "raise"
    ELSE "insert"

\* What one pass of the loop body does with a file: "insert", "skip" (continue,
\* or an exception caught by `except Exception`), or "raise" (an exception that
\* leaves index_repository; the code lets none of these files do that).
FileStep(f) ==
    IF f.err = "stat" THEN "skip"
    ELSE IF TooLarge(f.size) THEN "skip"
    ELSE IF f.err = "read" THEN "skip"
    ELSE IF DecodeFails(f) THEN "skip"
    ELSE IF f.err = "mtime" THEN "skip"
    ELSE "insert"

\* The row index_repository inserts for a file of the working copy.
MakeRow(name, wf) ==
    LET repo_path == RepoPath(name)
        root == IF wf.file.dir = <<>> THEN repo_path ELSE Join(repo_path, wf.file.dir)
        filepath == Join(root, wf.file.name)
    IN  [repo_name |-> name,
         filepath |-> Relpath(filepath, repo_path),
         filename |-> wf.file.name,
         content |-> wf.file.text,
         last_modified |-> IsoFormat(wf.mtime)]

\* ------------------------------------------------------------ search_files

\* The query texts the requests carry: lists of bare terms, the empty text, and
\* a text with an unterminated string.
Queries ==
    { <<>>, <<"hello">>, <<"README", "r">>, <<"nomatch">>, <<"\"">> }

\* The limits search_files is called with.
Limits == {0 - 1, 0, 2, DefaultLimit}

Separators == {"/", "."}

\* The tokenizer of the full-text table folds case.
Lower(p) == IF p = "README" THEN "readme" ELSE IF p = "T" THEN "t" ELSE p

\* The tokens of a text: its words, case folded.
Tokens(text) == {Lower(text[k]) : k \in {n \in 1..Len(text) : text[n] \notin Separators}}

\* MATCH ? raises sqlite3.OperationalError on a text the full-text engine does
\* not accept: the empty text, an unterminated string, a separator among the
\* terms.
QueryError(q) ==
    \/ q = <<>>
    \/ Cardinality(Positions(q, "\"")) % 2 = 1
    \/ \E k \in 1..Len(q) : q[k] \in Separators

\* The tokens of the five columns of a row.
RowTokens(row) ==
    Tokens(row.repo_name) \cup Tokens(row.filepath) \cup Tokens(row.filename)
        \cup Tokens(row.content) \cup Tokens(row.last_modified)

\* file_contents MATCH q, for a list of terms: every term is in the row.
Matches(row, q) == Tokens(q) \subseteq RowTokens(row)

RECURSIVE Matching(_, _)
Matching(rows, q) ==
    IF rows = <<>> THEN <<>>
    ELSE IF Matches(Head(rows), q) THEN <<Head(rows)>> \o Matching(Tail(rows), q)
    ELSE Matching(Tail(rows), q)

\* snippet(file_contents, 0, '...', '...', '...', 50): column 0 (repo_name)
\* with every matched token between two '...'.
RECURSIVE Snippet(_, _)
Snippet(text, q) ==
    IF text = <<>> THEN <<>>
    ELSE (IF text[1] \notin Separators /\ Lower(text[1]) \in Tokens(q)
          THEN <<"...", text[1], "...">> ELSE <<text[1]>>) \o Snippet(Tail(text), q)

\* A row of the SELECT.
Hit(row, q) ==
    [repo_name |-> row.repo_name, filepath |-> row.filepath, filename |-> row.filename,
     preview |-> Snippet(row.repo_name, q)]

Min(a, b) == IF a <= b THEN a ELSE b

\* LIMIT ? that lets one row too many through: a mutant.
LimitOffByOne(rows, n) ==
    IF n < 0 THEN rows ELSE SubSeq(rows, 1, Min(n + 1, Len(rows)))

\* LIMIT ?: a negative limit is no limit.
Limit(rows, n) ==
    IF n < 0 THEN rows ELSE SubSeq(rows, 1, Min(n, Len(rows)))

\* The rows of the SELECT of search_files, for a query the engine accepts.
Select(rows, q, n) ==
    LET m == Limit(Matching(rows, q), n)
    IN  [k \in 1..Len(m) |-> Hit(m[k], q)]

\* A thread that is serving no request.
NoRequest == [pc |-> "idle", query |-> <<>>, limit |-> 0, status |-> "none", hits |-> <<>>]

\* ------------------------------------------------------------------- Init

Init ==
    /\ outcome \in [URLs -> Outcomes]
    /\ clock = 1
    /\ fs = [n \in RepoNames |-> IF n = <<>> THEN [exists |-> TRUE, files |-> <<>>] ELSE Absent]
    /\ index = <<>>
    /\ committed = <<>>
    /\ origin = <<>>
    /\ pc = "idle"
    /\ urls = <<>>
    /\ i = 1
    /\ repo = <<>>
    /\ j = 1
    /\ trace = <<>>
    /\ nruns = 0
    /\ runs = <<>>
    /\ cursor = <<>>
    /\ th = [t \in Threads |-> NoRequest]

\* ------------------------------------------------------- index_repositories

Event(ev, at, out) == [ev |-> ev, at |-> at, out |-> out]

\* A call of index_repositories that has ended: its argument, how it ended
\* ("completed", or "raised" when an exception left it), the rows it left, and
\* the files those rows came from.
EndedRun(status, tr) ==
    [urls |-> urls, status |-> status, rows |-> index, saved |-> committed,
     origin |-> origin, trace |-> tr]

\* The record of ended calls holds the call that has just ended and the one
\* before it; a new call drops the older of the two.
Remember(r) == Append(runs, r)

Forget == IF Len(runs) < 2 THEN runs ELSE Tail(runs)

SearchIdle == \A t \in Threads : th[t].pc = "idle"

\* index_repositories(repo_urls) is called. __main__ calls it before app.run, so
\* no request is being served.
StartRun(us) ==
    /\ pc = "idle"
    /\ SearchIdle
    /\ pc' = "clearing"
    /\ urls' = us
    /\ i' = 1
    /\ trace' = <<>>
    /\ nruns' = nruns + 1
    /\ runs' = Forget
    /\ UNCHANGED <<outcome, clock, fs, index, committed, origin, repo, j, cursor, th>>

\* DELETE FROM file_contents; commit.
ClearIndex ==
    /\ pc = "clearing"
    /\ index' = <<>>
    /\ committed' = <<>>
    /\ origin' = <<>>
    /\ trace' = Append(trace, Event("clear", 0, "ok"))
    /\ pc' = "fetching"
    /\ UNCHANGED <<outcome, clock, fs, urls, i, repo, j, nruns, runs, cursor, th>>

\* repo_name = self.clone_repo(repo_url); if repo_name: ...
CloneRepo ==
    /\ pc = "fetching"
    /\ i <= Len(urls)
    /\ LET url == urls[i]
           out == outcome[url]
           r == CloneResult(url, out)
       IN  /\ fs' = FsAfterClone(fs, url, out, clock)
           /\ clock' = clock + 1
           /\ trace' = Append(trace, Event("fetch", i, out))
           /\ UNCHANGED <<outcome, index, committed, origin, urls, nruns, cursor, th>>
           /\ IF out = "raise"
              THEN /\ pc' = "idle"
                   /\ runs' = Remember(EndedRun("raised", trace'))
                   /\ UNCHANGED <<i, repo, j>>
              ELSE IF Truthy(r)
              THEN /\ pc' = "walking"
                   /\ repo' = r.name
                   /\ j' = 1
                   /\ UNCHANGED <<i, runs>>
              ELSE /\ i' = i + 1
                   /\ UNCHANGED <<pc, repo, j, runs>>

\* One pass of the loop over the files of os.walk(repo_path).
ProcessFile ==
    /\ pc = "walking"
    /\ j <= Len(fs[repo].files)
    /\ LET wf == fs[repo].files[j]
           step == FileStep(wf.file)
       IN  /\ UNCHANGED <<outcome, clock, fs, committed, urls, i, repo, nruns, cursor, th>>
           /\ IF step = "insert"
              THEN /\ index' = Append(index, MakeRow(repo, wf))
                   /\ origin' = Append(origin, [at |-> i, url |-> urls[i], file |-> wf.file])
                   /\ trace' = Append(trace, Event("insert", i, "ok"))
                   /\ j' = j + 1
                   /\ UNCHANGED <<pc, runs>>
              ELSE IF step = "skip"
              THEN /\ j' = j + 1
                   /\ UNCHANGED <<index, origin, trace, pc, runs>>
              ELSE /\ pc' = "idle"
                   /\ runs' = Remember(EndedRun("raised", trace))
                   /\ UNCHANGED <<index, origin, trace, j>>

\* self.conn.commit() at the end of index_repository; the loop of
\* index_repositories goes on to the next location.
CommitRepo ==
    /\ pc = "walking"
    /\ j > Len(fs[repo].files)
    /\ committed' = index
    /\ trace' = Append(trace, Event("commit", i, "ok"))
    /\ i' = i + 1
    /\ pc' = "fetching"
    /\ UNCHANGED <<outcome, clock, fs, index, origin, urls, repo, j, nruns, runs, cursor, th>>

\* The loop over repo_urls is over: index_repositories returns.
FinishRun ==
    /\ pc = "fetching"
    /\ i > Len(urls)
    /\ pc' = "idle"
    /\ runs' = Remember(EndedRun("completed", trace))
    /\ UNCHANGED <<outcome, clock, fs, index, committed, origin, urls, i, repo, j, trace,
                   nruns, cursor, th>>

\* The lists of locations a call is given.
UrlLists == UNION {[1..n -> URLs] : n \in 0..MaxUrls}

RunSteps ==
    \/ ClearIndex
    \/ CloneRepo
    \/ ProcessFile
    \/ CommitRepo
    \/ FinishRun

\* self.cursor.execute(SELECT ..., (query, limit)) in thread t. A failed
\* execute leaves the cursor without rows.
Execute(t, q, n) ==
    /\ pc = "idle"
    /\ th[t].pc = "idle"
    /\ IF QueryError(q)
       THEN /\ cursor' = <<>>
            /\ th' = [th EXCEPT ![t] = [pc |-> "done", query |-> q, limit |-> n,
                                        status |-> "raised", hits |-> <<>>]]
       ELSE /\ cursor' = Select(index, q, n)
            /\ th' = [th EXCEPT ![t] = [pc |-> "executed", query |-> q, limit |-> n,
                                        status |-> "none", hits |-> <<>>]]
    /\ UNCHANGED pipeVars

\* return self.cursor.fetchall() in thread t: the rows the shared cursor has
\* left.
Fetchall(t) ==
    /\ th[t].pc = "executed"
    /\ th' = [th EXCEPT ![t] = [@ EXCEPT !.pc = "done", !.status = "ok", !.hits = cursor]]
    /\ cursor' = <<>>
    /\ UNCHANGED pipeVars

\* The caller has its result (or the exception); the thread is free again.
Return(t) ==
    /\ th[t].pc = "done"
    /\ th' = [th EXCEPT ![t] = NoRequest]
    /\ UNCHANGED <<cursor, outcome, clock, fs, index, committed, origin, pc, urls, i, repo, j,
                   trace, nruns, runs>>

\* The indexing pipeline, called up to MaxRuns times.
Next ==
    \/ /\ nruns < MaxRuns
       /\ \E us \in UrlLists : StartRun(us)
    \/ RunSteps

Spec == Init /\ [][Next]_vars

\* setup_initial_repos() as __main__ calls it: one call of index_repositories.
Setup ==
    \/ /\ nruns = 0
       /\ \E us \in UrlLists : StartRun(us)
    \/ RunSteps

\* One caller of search_files(query, limit) after the setup.
NextSearch ==
    \/ Setup
    \/ \E q \in Queries, n \in Limits : Execute(1, q, n)
    \/ Fetchall(1)
    \/ Return(1)

SpecSearch == Init /\ [][NextSearch]_vars

\* The web application: the threads of the server run search(), which calls
\* search_files(query) with the default limit.
NextWeb ==
    \/ Setup
    \/ \E t \in Threads, q \in Queries : Execute(t, q, DefaultLimit)
    \/ \E t \in Threads : Fetchall(t)
    \/ \E t \in Threads : Return(t)

SpecWeb == Init /\ [][NextWeb]_vars

\* ------------------------------------------------------------------ claims

\* A file the filters let through: within the size ceiling, valid UTF-8, and
\* read without an I/O error.
PassesFilter(f) == f.size <= SizeLimit /\ f.utf8 /\ f.err = "none"

\* How many rows of an origin sequence came from file f of the location at
\* position k of the list.
Copies(org, k, f) == Cardinality({n \in 1..Len(org) : org[n].at = k /\ org[n].file = f})

\* How many rows of an origin sequence came from the location at position k.
RowsAt(org, k) == Cardinality({n \in 1..Len(org) : org[n].at = k})

Files(tree) == {tree[k] : k \in 1..Len(tree)}

Ended == {runs[k] : k \in 1..Len(runs)}

\* The files of the working copy the walk has passed.
Walked == {fs[repo].files[k].file : k \in 1..(j - 1)}

\* C1: when index_repositories completes, the rows of the index are exactly the
\* filtered files of the locations of the call whose fetch succeeded, each
\* once, and nothing else.
C1_IndexIsExactlyFetchedFiles ==
    \A r \in Ended :
        r.status = "completed" =>
            /\ Len(r.rows) = Len(r.origin)
            /\ \A n \in 1..Len(r.origin) :
                   /\ r.origin[n].at \in 1..Len(r.urls)
                   /\ r.origin[n].url = r.urls[r.origin[n].at]
            /\ \A k \in 1..Len(r.urls) :
                   IF outcome[r.urls[k]] = "ok"
                   THEN \E t \in 1..clock :
                            /\ \A f \in Files(Cloned(r.urls[k], t)) :
                                   Copies(r.origin, k, f) = IF PassesFilter(f) THEN 1 ELSE 0
                            /\ RowsAt(r.origin, k) =
                                   Cardinality({f \in Files(Cloned(r.urls[k], t)) : PassesFilter(f)})
                   ELSE RowsAt(r.origin, k) = 0

\* C2: whatever way the fetch of a location fails, index_repositories runs to
\* completion, the failing location contributes no row, and every location of
\* the call whose fetch succeeds is indexed.
C2_FetchFailureIsNotFatal ==
    \A r \in Ended :
        /\ r.status = "completed"
        /\ \A k \in 1..Len(r.urls) :
               /\ outcome[r.urls[k]] # "ok" => RowsAt(r.origin, k) = 0
               /\ outcome[r.urls[k]] = "ok" =>
                      \A f \in Files(RemoteTree(r.urls[k])) :
                          PassesFilter(f) => Copies(r.origin, k, f) >= 1

\* C3: search_files returns a sequence for every query text and never raises
\* to its caller; for the empty text it returns the empty sequence.
C3_SearchNeverRaises ==
    th[1].pc = "done" =>
        /\ th[1].status = "ok"
        /\ th[1].query = <<>> => th[1].hits = <<>>

\* The number of rows of the index that match a query.
MatchCount(q) == Cardinality({k \in 1..Len(index) : Matches(index[k], q)})

C5_SizeCeiling ==
    /\ \A n \in 1..Len(origin) : origin[n].file.size <= SizeLimit
    /\ pc = "walking" =>
           \A f \in Walked :
               f.size = SizeLimit /\ f.utf8 /\ f.err = "none" => Copies(origin, i, f) = 1

\* C5's case: the walk has passed a file over the ceiling and has inserted a
\* file of exactly 1,000,000 bytes.
C5_Witness ==
    /\ pc = "walking"
    /\ \E f \in Walked : f.size > SizeLimit /\ f.utf8 /\ f.err = "none"
    /\ \E n \in 1..Len(origin) : origin[n].file.size = SizeLimit

\* C6: no row of the index comes from a file that is not valid UTF-8; the walk
\* skips such a file and still inserts the files after it that pass the filters.
C6_OnlyDecodableFiles ==
    /\ \A n \in 1..Len(origin) : origin[n].file.utf8
    /\ pc = "walking" =>
           \A a \in 1..(j - 1) : \A b \in (a + 1)..(j - 1) :
               LET bad == fs[repo].files[a].file
                   good == fs[repo].files[b].file
               IN  ~bad.utf8 =>
                       /\ Copies(origin, i, bad) = 0
                       /\ PassesFilter(good) => Copies(origin, i, good) = 1

\* C6's case: the walk has passed a small file that is not UTF-8 and has
\* inserted a file that comes after it.
C6_Witness ==
    /\ pc = "walking"
    /\ \E a \in 1..(j - 1) : \E b \in (a + 1)..(j - 1) :
           /\ ~fs[repo].files[a].file.utf8
           /\ fs[repo].files[a].file.size <= SizeLimit
           /\ fs[repo].files[a].file.err = "none"
           /\ Copies(origin, i, fs[repo].files[b].file) = 1

\* The rows of a sequence, as a set.
RowSet(rows) == {rows[k] : k \in 1..Len(rows)}

\* A row without its last_modified.
Undated(row) ==
    [repo_name |-> row.repo_name, filepath |-> row.filepath, filename |-> row.filename,
     content |-> row.content]

\* C7 as stated: two calls of index_repositories in a row with the same list,
\* the same repository content and the same fetch outcomes leave the same set
\* of rows (repo_name, filepath, filename, content, last_modified).
C7_Idempotent ==
    Len(runs) = 2 /\ runs[1].urls = runs[2].urls =>
        RowSet(runs[1].rows) = RowSet(runs[2].rows)

\* C7 with last_modified left out: the two calls leave the same set of rows
\* (repo_name, filepath, filename, content).
C7_IdempotentButForLastModified ==
    Len(runs) = 2 /\ runs[1].urls = runs[2].urls =>
        {Undated(x) : x \in RowSet(runs[1].rows)} = {Undated(x) : x \in RowSet(runs[2].rows)}

\* A path below .git/logs: a reflog of the clone.
IsReflog(path) == Len(path) >= 4 /\ SubSeq(path, 1, 4) = <<".", "git", "/", "logs">>

\* A row without what the time of the clone decides: its last_modified, and its
\* content when it is a reflog.
Timeless(row) ==
    [repo_name |-> row.repo_name, filepath |-> row.filepath, filename |-> row.filename,
     content |-> IF IsReflog(row.filepath) THEN <<>> ELSE row.content]

\* C7 as amended: the two calls leave the same set of (repo_name, filepath,
\* filename), with the same content for every row that is not a reflog of the
\* clone; last_modified and the content of the reflogs are of the second clone.
C7_IdempotentButForCloneTime ==
    Len(runs) = 2 /\ runs[1].urls = runs[2].urls =>
        {Timeless(x) : x \in RowSet(runs[1].rows)} = {Timeless(x) : x \in RowSet(runs[2].rows)}

\* C7's case: the same list, with two locations of one repo_name, has been
\* indexed twice and has left rows both times.
C7_Witness ==
    /\ Len(runs) = 2
    /\ runs[1].urls = runs[2].urls
    /\ Len(runs[1].urls) = 2
    /\ RepoNameOf(runs[1].urls[1]) = RepoNameOf(runs[1].urls[2])
    /\ runs[1].urls[1] # runs[1].urls[2]
    /\ runs[2].status = "completed"
    /\ \E x \in RowSet(runs[2].rows) : IsReflog(x.filepath)
    /\ \E x \in RowSet(runs[2].rows) : x.filename = <<"README", ".", "md">>
    /\ \E x \in RowSet(runs[2].rows) : x.filename = <<"main", ".", "py">>
    /\ RowSet(runs[1].rows) # RowSet(runs[2].rows)

\* C8: with no reindex in flight, every request gets exactly the hits its own
\* query would get if it ran alone, whatever the other threads do.
C8_RequestsAreIsolated ==
    \A t \in Threads :
        th[t].pc = "done" /\ ~QueryError(th[t].query) =>
            /\ th[t].status = "ok"
            /\ th[t].hits = Select(index, th[t].query, th[t].limit)

\* C9: an I/O error on one file skips that file only: the walk goes on, every
\* other file that passes the filters is inserted, and the rows are committed
\* when index_repository returns.
C9_IoErrorSkipsOneFile ==
    /\ pc = "walking" =>
           \A f \in Walked :
               /\ f.err # "none" => Copies(origin, i, f) = 0
               /\ PassesFilter(f) => Copies(origin, i, f) = 1
    /\ \A r \in Ended :
           r.status = "raised" => Last(r.trace).ev = "fetch" /\ Last(r.trace).out = "raise"
    /\ pc # "walking" => committed = index

\* C9's case: a repository with files that fail at getsize, at read and at stat
\* has been walked to its end and committed, with the other files as rows.
C9_Witness ==
    /\ pc = "fetching"
    /\ i = 2
    /\ urls[1] = UrlPlain
    /\ \E n \in 1..Len(origin) : origin[n].file.name = <<"main", ".", "py">>
    /\ \E n \in 1..Len(origin) : origin[n].file.name = <<"notes", ".", "txt">>
    /\ \E f \in Files(TreePlain) : f.err = "read"
    /\ \E f \in Files(TreePlain) : f.err = "mtime"
    /\ committed = index
    /\ Last(trace).ev = "commit"

\* The positions of a trace that hold an event of the given kind.
EventsAt(tr, ev) == {n \in 1..Len(tr) : tr[n].ev = ev}

\* C10: a call clears the index once and first, then takes the locations in
\* list order, each fetched exactly once; the rows of a location follow its
\* fetch and are committed before the next fetch; a failed fetch is followed at
\* once by the next location, with no walk or insert.
C10_RunFollowsStateMachine ==
    \A r \in Ended :
        LET tr == r.trace
            fetches == EventsAt(tr, "fetch")
        IN  /\ EventsAt(tr, "clear") = {1}
            /\ \A k \in 1..Len(r.urls) : Cardinality({n \in fetches : tr[n].at = k}) = 1
            /\ \A a \in fetches, b \in fetches : a < b => tr[a].at < tr[b].at
            /\ \A n \in 2..Len(tr) :
                   /\ tr[n].ev \in {"insert", "commit"} =>
                          /\ tr[n].at = tr[n - 1].at
                          /\ tr[n - 1].ev \in {"fetch", "insert"}
                          /\ tr[n - 1].ev = "fetch" => tr[n - 1].out = "ok"
                   /\ tr[n].ev = "fetch" /\ tr[n - 1].ev # "clear" =>
                          \/ tr[n - 1].ev = "commit"
                          \/ tr[n - 1].ev = "fetch" /\ tr[n - 1].out # "ok"
            /\ Len(tr) > 0 => Last(tr).ev # "insert"

====
